---- MODULE Spec2Model ----
(***************************************************************************)
(* Model of LiDOG's training entry point (train_lidog.py) and of the BEV   *)
(* transform composition (utils/common/transforms.py).                     *)
(*                                                                         *)
(* Strings are sequences of one-character strings, so that the fixed       *)
(* position slices n[:16], n[5:7], e[6:8] and the int() conversions of the *)
(* source are computed character by character.  Sequence indices are       *)
(* 1-based here; Python's index i is index i+1.                            *)
(***************************************************************************)
EXTENDS Integers, Sequences, FiniteSets, TLC

\* ------------------------------------------------------------------ bounds
\* Most run folders under save_dir in an initial directory tree.
MaxRuns == 2
\* Most files in one checkpoints folder of an initial directory tree.
MaxCkpts == 2
\* Most invocations of train() (process starts) in one behaviour.
MaxInvocations == 3
\* config.pipeline.epochs of the modelled configuration.
MaxEpochs == 2
\* Most transforms in a ComposeBEV.
MaxTransforms == 2
\* Most calls of one ComposeBEV that return.
MaxCalls == 2
\* Most names in config.source_dataset.name.
MaxSources == 3

\* ------------------------------------------------------- Python primitives
Digits == <<"0", "1", "2", "3", "4", "5", "6", "7", "8", "9">>

DigitSet == {Digits[i] : i \in 1..10}

IsDigit(c) == c \in DigitSet

DigitVal(c) == (CHOOSE i \in 1..10 : Digits[i] = c) - 1

Min(a, b) == IF a < b THEN a ELSE b

\* Python's s[a:b] for 0 <= a <= b: clamped to the length of s.
Slice(s, a, b) ==
  IF a >= Min(b, Len(s)) THEN <<>> ELSE SubSeq(s, a + 1, Min(b, Len(s)))

\* Python's s[:-1].
DropLast(s) == IF Len(s) = 0 THEN <<>> ELSE SubSeq(s, 1, Len(s) - 1)

RECURSIVE LStrip(_)
LStrip(s) == IF Len(s) > 0 /\ s[1] = " " THEN LStrip(Tail(s)) ELSE s

RECURSIVE RStrip(_)
RStrip(s) == IF Len(s) > 0 /\ s[Len(s)] = " " THEN RStrip(DropLast(s)) ELSE s

RECURSIVE DigitsValue(_)
DigitsValue(s) ==
  IF Len(s) = 0 THEN 0
  ELSE IF s[Len(s)] = "_" THEN DigitsValue(DropLast(s))
  ELSE 10 * DigitsValue(DropLast(s)) + DigitVal(s[Len(s)])

\* The literal grammar of Python's int(str): optional surrounding whitespace,
\* an optional sign, then decimal digits that single underscores may separate.
IntLiteralBody(b) ==
  /\ Len(b) > 0
  /\ IsDigit(b[1])
  /\ IsDigit(b[Len(b)])
  /\ \A i \in 1..Len(b) : IsDigit(b[i]) \/ b[i] = "_"
  /\ \A i \in 1..(Len(b) - 1) : ~(b[i] = "_" /\ b[i + 1] = "_")

\* Python's int(s): [ok |-> FALSE] stands for ValueError.
PyInt(s) ==
  LET t == RStrip(LStrip(s))
      signed == Len(t) > 0 /\ t[1] \in {"+", "-"}
      b == IF signed THEN Tail(t) ELSE t
      good == IntLiteralBody(b)
      v == IF good THEN DigitsValue(b) ELSE 0
  IN [ok |-> good, val |-> IF signed /\ t[1] = "-" THEN 0 - v ELSE v]

\* Python's str(n) for n >= 0.
RECURSIVE Str(_)
Str(n) == IF n < 10 THEN <<Digits[n + 1]>> ELSE Str(n \div 10) \o <<Digits[(n % 10) + 1]>>

\* A zero padded field of strftime: %m, %d, %H, %M are two wide, %Y four.
RECURSIVE ZeroPad(_, _)
ZeroPad(n, w) == IF Len(Str(n)) >= w THEN Str(n) ELSE <<"0">> \o ZeroPad(n, w - 1)

\* ArgMax changed to return the last index of the maximum.
ArgMaxLast(a) ==
  CHOOSE i \in 1..Len(a) :
    /\ \A j \in 1..Len(a) : a[j] <= a[i]
    /\ \A j \in (i + 1)..Len(a) : a[j] < a[i]

\* numpy.argmax of a non-empty sequence: the first index of the maximum.
ArgMax(a) ==
  CHOOSE i \in 1..Len(a) :
    /\ \A j \in 1..Len(a) : a[j] <= a[i]
    /\ \A j \in 1..(i - 1) : a[j] < a[i]

\* Every order in which os.listdir may enumerate the entries S.
Listings(S) ==
  {s \in [1..Cardinality(S) -> S] : \A i, j \in 1..Cardinality(S) : i /= j => s[i] /= s[j]}


\* ---------------------------------------------------------------- state
VARIABLES
  fs_exists,       \* os.path.exists(config.pipeline.save_dir)
  fs,              \* run folder name -> [dir: the checkpoints folder exists, files: its entries]
  last_created,    \* the run folder created last on disk, <<>> when there is none
  clock,           \* the latest reading of time.gmtime(), an index into Clock
  invocations,     \* how many times train() has been started
  nsrc,            \* len(config.source_dataset.name)
  model_known,     \* config.model.name == 'MinkUNet34BEV'
  augmentation,    \* config.source_dataset.augmentation_list is not None (the
                   \* modelled configurations have one)
  auto_resume,     \* args.auto_resume
  pc,              \* the position of train()
  raised,          \* the exception that ended train(), "" when none
  training_dataset, validation_dataset,      \* what get_source_domains returned
  collation_source, validation_dataloader,   \* the collate_fn of the loaders
  all_names, last_path, all_ckpt,            \* locals of get_last_checkpoint
  ret,             \* what get_last_checkpoint returned
  resume_from_checkpoint, run_name, ckpt_dir, \* locals of train
  pl_module, trainer, fit_ckpt_path,
  epoch,           \* the epoch trainer.fit is training
  wrote,           \* whether this invocation has written a checkpoint
  resumed_only,    \* every earlier invocation wrote a checkpoint, and all but the
                   \* first were auto-resumed, on a save_dir that held no run before
  bev_pc,          \* the position of ComposeBEV.__call__
  bev_transforms,  \* self.transforms
  bev_params,      \* the params argument: [none, list]
  bev_img,         \* img
  bev_i,           \* how many transforms the loop has applied
  bev_tr_params,   \* tr_params
  bev_calls,       \* the transform calls of this __call__, in order
  bev_returned,    \* the parameter lists earlier calls returned
  bev_raised       \* the exception that ended __call__, "" when none

trainVars == <<fs_exists, fs, last_created, clock, invocations, nsrc, model_known, augmentation,
          auto_resume, pc, raised, training_dataset, validation_dataset,
          collation_source, validation_dataloader, all_names, last_path, all_ckpt, ret,
          resume_from_checkpoint, run_name, ckpt_dir, pl_module, trainer, fit_ckpt_path,
          epoch, wrote, resumed_only>>

bevVars == <<bev_pc, bev_transforms, bev_params, bev_img, bev_i, bev_tr_params, bev_calls,
             bev_returned, bev_raised>>

vars == <<trainVars, bevVars>>

\* -------------------------------------------------------------- run names
\* time.strftime("%Y_%m_%d_%H:%M", t) for t = <<year, month, day, hour, minute>>.
RunTime(t) ==
  ZeroPad(t[1], 4) \o <<"_">> \o ZeroPad(t[2], 2) \o <<"_">> \o ZeroPad(t[3], 2)
    \o <<"_">> \o ZeroPad(t[4], 2) \o <<":">> \o ZeroPad(t[5], 2)

\* config.model.name, the one name get_model accepts.
ModelName == <<"M", "i", "n", "k", "U", "N", "e", "t", "3", "4", "B", "E", "V">>

\* 'BS' + batch_size, optimizer.name, optimizer.lr, scheduler.name and the two
\* criteria of the modelled configuration, each followed by '_'.
ConfigFields == <<"B", "S", "4", "_", "S", "G", "D", "_", "0", ".", "0", "1", "_", "N", "o", "n", "e", "_", "C", "E", "_", "C", "E", "_">>

\* get_run_name(config) at time t, with config.pipeline.wandb.run_name = None.
get_run_name(t, aug) ==
  RunTime(t) \o ModelName \o <<"_">> \o ConfigFields
    \o (IF aug THEN <<"A", "U", "G">> ELSE <<"N", "O", "_", "A", "U", "G">>)

PT2 == <<"-", "P", "T", "2">>

\* SuccessorName changed to append the marker whatever the last character is.
SuccessorNameAppend(name) == name \o PT2

\* The successor name of lines 199-202.
SuccessorName(name) ==
  IF IsDigit(name[Len(name)])
  THEN DropLast(name) \o Str(DigitVal(name[Len(name)]) + 1)
  ELSE name \o PT2

\* --------------------------------------------------------- checkpoint names
\* The file ModelCheckpoint writes for an epoch: epoch=<E>-step=<S>.ckpt.
CkptName(e, w, s) ==
  <<"e", "p", "o", "c", "h", "=">> \o ZeroPad(e, w) \o <<"-", "s", "t", "e", "p", "=">>
    \o Str(s) \o <<".", "c", "k", "p", "t">>

\* --------------------------------------------------- get_last_checkpoint
\* Lines 152-157: the five fields of the name's first 16 characters.
ParseDate(n) ==
  LET date == Slice(n, 0, 16)
  IN [y |-> PyInt(Slice(date, 0, 4)), mo |-> PyInt(Slice(date, 5, 7)),
      d |-> PyInt(Slice(date, 8, 10)), h |-> PyInt(Slice(date, 11, 13)),
      m |-> PyInt(Slice(date, 14, 16))]

DateOk(p) == p.y.ok /\ p.mo.ok /\ p.d.ok /\ p.h.ok /\ p.m.ok

\* Line 158: the ranking key.
DateKey(p) ==
  p.y.val * 365 * 24 * 60 + p.mo.val * 30 * 24 * 60 + p.d.val * 24 * 60 + p.h.val * 60 + p.m.val

\* Lines 163-169: the epoch of a checkpoint file name.
ParseEpoch(f) ==
  LET e == Slice(f, 6, 8)
  IN IF ~(Len(e) > 0 /\ e[Len(e)] = "-") THEN PyInt(e) ELSE PyInt(<<e[1]>>)

\* SelectRun changed to skip the entries whose names do not parse.
SelectRunSkipping(exists, names) ==
  LET good == SelectSeq(names, LAMBDA n : DateOk(ParseDate(n)))
  IN IF ~exists \/ Len(good) = 0 THEN [st |-> "none", idx |-> 0]
     ELSE [st |-> "ok",
           idx |-> CHOOSE i \in 1..Len(names) :
                     names[i] = good[ArgMax([k \in 1..Len(good) |-> DateKey(ParseDate(good[k]))])]]

\* Lines 144-159: "none" for the (None, None) return, an exception name, or the
\* index of the selected run in all_names.
SelectRun(exists, names) ==
  IF ~exists THEN [st |-> "none", idx |-> 0]
  ELSE IF Len(names) = 0 THEN [st |-> "none", idx |-> 0]
  ELSE IF \E i \in 1..Len(names) : ~DateOk(ParseDate(names[i]))
       THEN [st |-> "ValueError", idx |-> 0]
  ELSE [st |-> "ok", idx |-> ArgMax([i \in 1..Len(names) |-> DateKey(ParseDate(names[i]))])]

\* Lines 162-170: an exception name, or the index of the selected file in all_ckpt.
SelectCkpt(has_dir, ckpts) ==
  IF ~has_dir THEN [st |-> "FileNotFoundError", idx |-> 0]
  ELSE IF \E i \in 1..Len(ckpts) : ~ParseEpoch(ckpts[i]).ok
       THEN [st |-> "ValueError", idx |-> 0]
  ELSE IF Len(ckpts) = 0 THEN [st |-> "ValueError", idx |-> 0]
  ELSE [st |-> "ok", idx |-> ArgMax([i \in 1..Len(ckpts) |-> ParseEpoch(ckpts[i]).val])]

\* (None, None), or the path save_path/run/checkpoints/file with the run name.
NoneResult == [none |-> TRUE, run |-> <<>>, file |-> <<>>]

PathResult(run, file) == [none |-> FALSE, run |-> run, file |-> file]

\* get_last_checkpoint(config.pipeline.save_dir), called from line 197.  The
\* two os.listdir calls return the entries in an order of the system's choice.
get_last_checkpoint ==
  /\ pc = "auto_resume"
  /\ auto_resume
  /\ \E names \in Listings(DOMAIN fs) :
       LET r == SelectRun(fs_exists, names)
       IN /\ all_names' = IF fs_exists THEN names ELSE <<>>
          /\ IF r.st = "none"
             THEN /\ ret' = NoneResult
                  /\ pc' = "resolved"
                  /\ UNCHANGED <<last_path, all_ckpt, raised>>
             ELSE IF r.st /= "ok"
             THEN /\ raised' = r.st
                  /\ pc' = "raised"
                  /\ UNCHANGED <<last_path, all_ckpt, ret>>
             ELSE \E ckpts \in Listings(fs[names[r.idx]].files) :
                    LET c == SelectCkpt(fs[names[r.idx]].dir, ckpts)
                    IN /\ last_path' = names[r.idx]
                       /\ all_ckpt' = ckpts
                       /\ IF c.st /= "ok"
                          THEN /\ raised' = c.st
                               /\ pc' = "raised"
                               /\ UNCHANGED ret
                          ELSE /\ ret' = PathResult(names[r.idx], ckpts[c.idx])
                               /\ pc' = "resolved"
                               /\ UNCHANGED raised
  /\ UNCHANGED <<fs_exists, fs, last_created, clock, invocations, nsrc, model_known,
                 augmentation, auto_resume, training_dataset, validation_dataset,
                 collation_source, validation_dataloader, resume_from_checkpoint,
                 run_name, ckpt_dir, pl_module, trainer, fit_ckpt_path, epoch, wrote, resumed_only>>
  /\ UNCHANGED bevVars


\* ------------------------------------------------------------- ComposeBEV
\* No ComposeBEV is in use.
NoCompose ==
  /\ bev_pc = "none"
  /\ bev_transforms = <<>>
  /\ bev_params = [none |-> TRUE, list |-> <<>>]
  /\ bev_img = <<>>
  /\ bev_i = 0
  /\ bev_tr_params = <<>>
  /\ bev_calls = <<>>
  /\ bev_returned = <<>>
  /\ bev_raised = ""

\* ------------------------------------------------------------------ train
Unset == [src |-> "unset", run |-> <<>>, file |-> <<>>]

\* config.pipeline.lightning.resume_checkpoint of the configuration.
ConfigCheckpoint == [src |-> "config", run |-> <<>>, file |-> <<>>]

\* The locals of train() before its first statement.
FreshLocals ==
  /\ raised = ""
  /\ training_dataset = ""
  /\ validation_dataset = <<>>
  /\ collation_source = ""
  /\ validation_dataloader = [list |-> FALSE, loaders |-> <<>>]
  /\ all_names = <<>>
  /\ last_path = <<>>
  /\ all_ckpt = <<>>
  /\ ret = NoneResult
  /\ resume_from_checkpoint = Unset
  /\ run_name = <<>>
  /\ ckpt_dir = <<>>
  /\ pl_module = ""
  /\ trainer = FALSE
  /\ fit_ckpt_path = Unset
  /\ epoch = 0
  /\ wrote = FALSE

\* The same values for the next invocation.
ResetLocals ==
  /\ raised' = ""
  /\ training_dataset' = ""
  /\ validation_dataset' = <<>>
  /\ collation_source' = ""
  /\ validation_dataloader' = [list |-> FALSE, loaders |-> <<>>]
  /\ all_names' = <<>>
  /\ last_path' = <<>>
  /\ all_ckpt' = <<>>
  /\ ret' = NoneResult
  /\ resume_from_checkpoint' = Unset
  /\ run_name' = <<>>
  /\ ckpt_dir' = <<>>
  /\ pl_module' = ""
  /\ trainer' = FALSE
  /\ fit_ckpt_path' = Unset
  /\ epoch' = 0
  /\ wrote' = FALSE

\* Lines 42-75, called from line 174.
get_model ==
  /\ pc = "get_model"
  /\ IF model_known
     THEN pc' = "get_source_domains" /\ UNCHANGED raised
     ELSE pc' = "raised" /\ raised' = "NotImplementedError"
  /\ UNCHANGED <<fs_exists, fs, last_created, clock, invocations, nsrc, model_known,
                 augmentation, auto_resume, training_dataset, validation_dataset,
                 collation_source, validation_dataloader, all_names, last_path, all_ckpt,
                 ret, resume_from_checkpoint, run_name, ckpt_dir, pl_module, trainer,
                 fit_ckpt_path, epoch, wrote, resumed_only>>
  /\ UNCHANGED bevVars

\* Lines 133-138: the training dataset is one domain's dataset for exactly one
\* source domain and a MultiBEVSourceDataset over the list otherwise.
TrainingDatasetKind(n) == IF n = 1 THEN "single" ELSE "MultiBEVSourceDataset"

\* Lines 104-140, called from line 176.  A validation dataset is written as the
\* set of source domains it covers; validation_dataset is the list of them, or
\* for one source domain the dataset itself (line 135).  The constructor of
\* line 138 is defined outside this file: on the list of two or more datasets
\* it is built for it returns, on an empty list it returns or raises.
get_source_domains ==
  /\ pc = "get_source_domains"
  /\ \/ /\ training_dataset' = TrainingDatasetKind(nsrc)
        /\ validation_dataset' = [sd \in 1..nsrc |-> {sd}]
        /\ pc' = "dataloaders"
        /\ UNCHANGED raised
     \/ /\ nsrc = 0
        /\ raised' = "Exception"
        /\ pc' = "raised"
        /\ UNCHANGED <<training_dataset, validation_dataset>>
  /\ UNCHANGED <<fs_exists, fs, last_created, clock, invocations, nsrc, model_known,
                 augmentation, auto_resume, collation_source,
                 validation_dataloader, all_names, last_path, all_ckpt, ret,
                 resume_from_checkpoint, run_name, ckpt_dir, pl_module, trainer,
                 fit_ckpt_path, epoch, wrote, resumed_only>>
  /\ UNCHANGED bevVars

\* Line 179.
CollationSource(dataset) ==
  IF dataset = "MultiBEVSourceDataset"
  THEN "CollateFNMultiSourceBEVMultiLevel"
  ELSE "CollateFNSingleSourceBEVMultiLevel"

\* Lines 34-40: a DataLoader, written as its collate_fn and the set of source
\* domains its dataset covers.
Loader(collate_fn, domains) == [collate_fn |-> collate_fn, domains |-> domains]

\* ValidationLoaders changed to hand the whole list to one loader.
ValidationLoadersOneLoader(n, vds) ==
  [list |-> FALSE, loaders |-> <<Loader("CollateFN", UNION {vds[i] : i \in 1..Len(vds)})>>]

\* Lines 186-192.
ValidationLoaders(n, vds) ==
  IF n > 1
  THEN [list |-> TRUE, loaders |-> [i \in 1..Len(vds) |-> Loader("CollateFN", vds[i])]]
  ELSE [list |-> FALSE,
        loaders |-> <<Loader("CollateFN", IF n = 1 THEN vds[1] ELSE {})>>]

\* Lines 178-192.  DataLoader is the framework's: over the datasets of one or
\* more domains it returns, over a dataset of no domain (line 181 with
\* shuffle=True) it returns or raises, by the framework's version.
dataloaders ==
  /\ pc = "dataloaders"
  /\ collation_source' = CollationSource(training_dataset)
  /\ \/ /\ validation_dataloader' = ValidationLoaders(nsrc, validation_dataset)
        /\ pc' = "auto_resume"
        /\ UNCHANGED raised
     \/ /\ nsrc = 0
        /\ raised' = "ValueError"
        /\ pc' = "raised"
        /\ UNCHANGED validation_dataloader
  /\ UNCHANGED <<fs_exists, fs, last_created, clock, invocations, nsrc, model_known,
                 augmentation, auto_resume, training_dataset, validation_dataset,
                 all_names, last_path, all_ckpt, ret, resume_from_checkpoint, run_name,
                 ckpt_dir, pl_module, trainer, fit_ckpt_path, epoch, wrote, resumed_only>>
  /\ UNCHANGED bevVars


\* time.gmtime() at the successive readings of the clock.
Clock == << <<2023, 5, 10, 9, 0>>, <<2023, 5, 10, 10, 30>> >>

\* RunNaming changed to take the successor branch whenever auto resume is on.
RunNamingAlwaysSuccessor(auto, r, now, aug) ==
  IF auto
  THEN [resume |-> [src |-> "resolver", run |-> r.run, file |-> r.file],
        name |-> r.run \o PT2]
  ELSE [resume |-> ConfigCheckpoint, name |-> get_run_name(now, aug)]

\* Lines 198-213: the run name, the checkpoint to resume from and the folder
\* the new checkpoints go to (save_dir, written as the run folder's name).
RunNaming(auto, r, now, aug) ==
  IF auto /\ ~r.none
  THEN [resume |-> [src |-> "resolver", run |-> r.run, file |-> r.file],
        name |-> SuccessorName(r.run)]
  ELSE [resume |-> ConfigCheckpoint, name |-> get_run_name(now, aug)]

\* Lines 195-225; get_run_name reads the clock, which never runs backwards.
name_run ==
  /\ \/ pc = "resolved"
     \/ pc = "auto_resume" /\ ~auto_resume
  /\ \E now \in (IF auto_resume /\ ~ret.none THEN {clock} ELSE clock..Len(Clock)) :
       LET n == RunNaming(auto_resume, ret, Clock[now], augmentation)
       IN /\ clock' = now
          /\ resume_from_checkpoint' = n.resume
          /\ run_name' = n.name
          /\ ckpt_dir' = n.name
  /\ pc' = "select_module"
  /\ UNCHANGED <<fs_exists, fs, last_created, invocations, nsrc, model_known,
                 augmentation, auto_resume, raised, training_dataset, validation_dataset,
                 collation_source, validation_dataloader, all_names, last_path, all_ckpt,
                 ret, pl_module, trainer, fit_ckpt_path, epoch, wrote, resumed_only>>
  /\ UNCHANGED bevVars

\* TrainerModule changed to accept two or more source domains.
TrainerModuleAtLeastTwo(n) ==
  IF n = 1 THEN "PLTTrainer2D"
  ELSE IF n >= 2 THEN "PLTTrainer2DMulti"
  ELSE ""

\* Lines 237-284: the trainer module for the number of source domains, "" for
\* the ValueError of line 284.
TrainerModule(n) ==
  IF n = 1 THEN "PLTTrainer2D"
  ELSE IF n = 2 THEN "PLTTrainer2DMulti"
  ELSE ""

\* Lines 237-284.
select_module ==
  /\ pc = "select_module"
  /\ IF TrainerModule(nsrc) /= ""
     THEN pl_module' = TrainerModule(nsrc) /\ pc' = "trainer" /\ UNCHANGED raised
     ELSE raised' = "ValueError" /\ pc' = "raised" /\ UNCHANGED pl_module
  /\ UNCHANGED <<fs_exists, fs, last_created, clock, invocations, nsrc, model_known,
                 augmentation, auto_resume, training_dataset, validation_dataset,
                 collation_source, validation_dataloader, all_names, last_path, all_ckpt,
                 ret, resume_from_checkpoint, run_name, ckpt_dir, trainer, fit_ckpt_path,
                 epoch, wrote, resumed_only>>
  /\ UNCHANGED bevVars

\* Lines 286-296.
new_trainer ==
  /\ pc = "trainer"
  /\ trainer' = TRUE
  /\ pc' = "fit"
  /\ UNCHANGED <<fs_exists, fs, last_created, clock, invocations, nsrc, model_known,
                 augmentation, auto_resume, raised, training_dataset, validation_dataset,
                 collation_source, validation_dataloader, all_names, last_path, all_ckpt,
                 ret, resume_from_checkpoint, run_name, ckpt_dir, pl_module,
                 fit_ckpt_path, epoch, wrote, resumed_only>>
  /\ UNCHANGED bevVars

\* The checkpoint file of an epoch, at 100 optimizer steps an epoch.
CkptFile(e) == CkptName(e, 1, (e + 1) * 100)

\* The epoch a checkpoint file holds.
StoredEpoch(file) == CHOOSE e \in 0..(MaxEpochs + MaxInvocations) : CkptFile(e) = file

\* The directory tree with the folder run/checkpoints made.
MakeDirs(tree, run) ==
  IF run \in DOMAIN tree
  THEN [tree EXCEPT ![run].dir = TRUE]
  ELSE [r \in DOMAIN tree \cup {run} |->
          IF r = run THEN [dir |-> TRUE, files |-> {}] ELSE tree[r]]

\* Lines 298-301: trainer.fit starts at the epoch after the one of ckpt_path,
\* and the ModelCheckpoint callback of lines 222-225 makes its dirpath.
fit ==
  /\ pc = "fit"
  /\ fit_ckpt_path' = resume_from_checkpoint
  /\ epoch' = IF resume_from_checkpoint.src = "resolver"
              THEN StoredEpoch(resume_from_checkpoint.file) + 1
              ELSE 0
  /\ fs_exists' = TRUE
  /\ fs' = MakeDirs(fs, ckpt_dir)
  /\ last_created' = IF ckpt_dir \in DOMAIN fs THEN last_created ELSE ckpt_dir
  /\ pc' = "training"
  /\ UNCHANGED <<clock, invocations, nsrc, model_known, augmentation, auto_resume, raised,
                 training_dataset, validation_dataset, collation_source,
                 validation_dataloader, all_names, last_path, all_ckpt, ret,
                 resume_from_checkpoint, run_name, ckpt_dir, pl_module, trainer, wrote,
                 resumed_only>>
  /\ UNCHANGED bevVars

\* Lines 222-225: at the end of every training epoch the callback saves a
\* checkpoint under save_dir/checkpoints and keeps all of them (save_top_k=-1).
epoch_end ==
  /\ pc = "training"
  /\ epoch < MaxEpochs
  /\ fs' = [fs EXCEPT ![ckpt_dir].files = @ \cup {CkptFile(epoch)}]
  /\ epoch' = epoch + 1
  /\ wrote' = TRUE
  /\ UNCHANGED <<fs_exists, last_created, clock, invocations, nsrc, model_known, augmentation,
                 auto_resume, pc, raised, training_dataset, validation_dataset,
                 collation_source, validation_dataloader, all_names, last_path, all_ckpt,
                 ret, resume_from_checkpoint, run_name, ckpt_dir, pl_module, trainer,
                 fit_ckpt_path, resumed_only>>
  /\ UNCHANGED bevVars

\* Line 301 returns: max_epochs is reached.
fit_returns ==
  /\ pc = "training"
  /\ epoch >= MaxEpochs
  /\ pc' = "done"
  /\ UNCHANGED <<fs_exists, fs, last_created, clock, invocations, nsrc, model_known,
                 augmentation, auto_resume, raised, training_dataset, validation_dataset,
                 collation_source, validation_dataloader, all_names, last_path, all_ckpt,
                 ret, resume_from_checkpoint, run_name, ckpt_dir, pl_module, trainer,
                 fit_ckpt_path, epoch, wrote, resumed_only>>
  /\ UNCHANGED bevVars

\* The process is stopped while training: the interruption auto resume is for.
interrupted ==
  /\ pc = "training"
  /\ pc' = "killed"
  /\ UNCHANGED <<fs_exists, fs, last_created, clock, invocations, nsrc, model_known,
                 augmentation, auto_resume, raised, training_dataset, validation_dataset,
                 collation_source, validation_dataloader, all_names, last_path, all_ckpt,
                 ret, resume_from_checkpoint, run_name, ckpt_dir, pl_module, trainer,
                 fit_ckpt_path, epoch, wrote, resumed_only>>
  /\ UNCHANGED bevVars

\* Lines 304-316: after a training that ended or was stopped the script is
\* started again on the same directory tree, with the same configuration
\* file.
main ==
  /\ pc \in {"done", "killed"}
  /\ invocations < MaxInvocations
  /\ invocations' = invocations + 1
  /\ resumed_only' = (resumed_only /\ wrote /\ (invocations = 1 \/ auto_resume))
  /\ \E a \in BOOLEAN : auto_resume' = a
  /\ pc' = "get_model"
  /\ ResetLocals
  /\ UNCHANGED <<fs_exists, fs, last_created, clock, nsrc, model_known, augmentation>>
  /\ UNCHANGED bevVars

\* The directory trees train() is first started on: no save_dir, an empty one,
\* or one holding a run folder of an earlier training with its first checkpoint.
EarlierRuns ==
  {RunTime(<<2023, 5, 10, 9, 0>>),
   get_run_name(<<2023, 5, 10, 9, 0>>, TRUE) \o <<"-", "P", "T", "9">>}

Init ==
  /\ \/ fs_exists = FALSE /\ fs = <<>> /\ last_created = <<>> /\ resumed_only = TRUE
     \/ fs_exists = TRUE /\ fs = <<>> /\ last_created = <<>> /\ resumed_only = TRUE
     \/ \E r \in EarlierRuns :
          /\ fs_exists = TRUE
          /\ fs = [n \in {r} |-> [dir |-> TRUE, files |-> {CkptFile(0)}]]
          /\ last_created = r
          /\ resumed_only = FALSE
  /\ clock = 1
  /\ invocations = 1
  /\ nsrc \in 0..MaxSources
  /\ model_known \in BOOLEAN
  /\ augmentation = TRUE
  /\ auto_resume \in BOOLEAN
  /\ pc = "get_model"
  /\ FreshLocals
  /\ NoCompose

Next ==
  \/ get_model
  \/ get_source_domains
  \/ dataloaders
  \/ get_last_checkpoint
  \/ name_run
  \/ select_module
  \/ new_trainer
  \/ fit
  \/ epoch_end
  \/ fit_returns
  \/ interrupted
  \/ main

Spec == Init /\ [][Next]_vars


\* ------------------------------------------- get_last_checkpoint on its own
\* Timestamps of run folders: the pairs of the resolver's documented examples
\* and a pair on either side of the end of January.
ValidTimes ==
  {<<2022, 12, 31, 23, 59>>, <<2023, 1, 1, 0, 1>>, <<2023, 1, 31, 12, 0>>,
   <<2023, 2, 1, 0, 0>>, <<2023, 5, 10, 9, 0>>, <<2023, 5, 10, 10, 30>>}

\* Entries of save_dir that are no timestamped run folders.
OtherEntries ==
  {<<"w", "a", "n", "d", "b">>,
   <<"2", "0", "2", "3", "_", "0", "5", "_", "1", "0", "_", "1", "0", ":">>,
   <<"2", "0", "_", "3", "_", "0", "5", "_", "1", "0", "_", "1", "0", ":", "3", "0">>}

\* Run folders: bare timestamps, a generated run name and its successor.
RunFolders ==
  {RunTime(t) : t \in ValidTimes}
    \cup {get_run_name(<<2023, 5, 10, 10, 30>>, TRUE),
          SuccessorName(get_run_name(<<2023, 5, 10, 10, 30>>, TRUE))}

\* The epochs, field widths and steps of the checkpoint files.
CkptFields == {<<7, 2, 100>>, <<7, 1, 100>>, <<12, 2, 200>>, <<99, 1, 300>>, <<100, 1, 400>>}

CkptFiles == {CkptName(c[1], c[2], c[3]) : c \in CkptFields}

\* Files of a checkpoints folder that are no epoch checkpoints.
OtherFiles == {<<"l", "a", "s", "t", ".", "c", "k", "p", "t">>}

\* The folders a run can be: without a checkpoints folder, or with one of at
\* most MaxCkpts of the files.
Folders(files) ==
  {[dir |-> FALSE, files |-> {}]}
    \cup {[dir |-> TRUE, files |-> X] : X \in {Y \in SUBSET files : Cardinality(Y) <= MaxCkpts}}

\* The directory trees of at most MaxRuns of the runs.
Trees(runs, files) ==
  UNION {[S -> Folders(files)] : S \in {R \in SUBSET runs : Cardinality(R) <= MaxRuns}}

\* train() at line 197 with --auto_resume and one source domain, on a tree of
\* many run names and one file name, or of two run names and many file names.
InitResolve ==
  /\ \/ fs_exists = FALSE /\ fs = <<>>
     \/ /\ fs_exists = TRUE
        /\ fs \in Trees(RunFolders \cup OtherEntries, {CkptName(7, 2, 100)})
     \/ /\ fs_exists = TRUE
        /\ fs \in Trees({RunTime(<<2023, 5, 10, 9, 0>>),
                         get_run_name(<<2023, 5, 10, 10, 30>>, TRUE)},
                        CkptFiles \cup OtherFiles)
  /\ last_created = <<>>
  /\ resumed_only = FALSE
  /\ clock = 1
  /\ invocations = 1
  /\ nsrc = 1
  /\ model_known = TRUE
  /\ augmentation = TRUE
  /\ auto_resume = TRUE
  /\ pc = "auto_resume"
  /\ raised = ""
  /\ training_dataset = TrainingDatasetKind(1)
  /\ validation_dataset = <<{1}>>
  /\ collation_source = CollationSource(TrainingDatasetKind(1))
  /\ validation_dataloader = ValidationLoaders(1, <<{1}>>)
  /\ all_names = <<>>
  /\ last_path = <<>>
  /\ all_ckpt = <<>>
  /\ ret = NoneResult
  /\ resume_from_checkpoint = Unset
  /\ run_name = <<>>
  /\ ckpt_dir = <<>>
  /\ pl_module = ""
  /\ trainer = FALSE
  /\ fit_ckpt_path = Unset
  /\ epoch = 0
  /\ wrote = FALSE
  /\ NoCompose

SpecResolve == InitResolve /\ [][get_last_checkpoint]_vars


\* ------------------------------------------------- ComposeBEV.__call__
\* The transforms a ComposeBEV is built from, and what a transform's
\* parameters can be.
TransformIds == {"A", "B"}

ParamValues == {"p", "q"}

\* Sequences over S of length at most n.
SeqsUpTo(S, n) == UNION {[1..k -> S] : k \in 0..n}

\* ParamFor changed to ignore the params argument.
ParamForNone(params, i) == "None"

\* Lines 45-48: the parameter handed to transform number i (from 0).
ParamFor(params, i) == IF ~params.none THEN params.list[i + 1] ELSE "None"

\* The call t(img, p, is_bev=True) of line 49: a transform given no parameters
\* draws its own (r), applies them to the image and reports them; the image is
\* written as the sequence of what has been applied to it.
Transform(t, img, p, r) ==
  LET used == IF p = "None" THEN r ELSE p
  IN [img |-> Append(img, <<t, used>>), tr |-> used]

\* Line 42: __call__(img, params) on a new image, with no params, with a list
\* of the caller's, or with the list an earlier call returned.
compose_call ==
  /\ bev_pc \in {"init", "returned", "raised"}
  /\ Len(bev_returned) < MaxCalls
  /\ \/ bev_params' = [none |-> TRUE, list |-> <<>>]
     \/ \E l \in SeqsUpTo(ParamValues, MaxTransforms) :
          bev_params' = [none |-> FALSE, list |-> l]
     \/ /\ bev_pc = "returned"
        /\ bev_params' = [none |-> FALSE, list |-> bev_returned[Len(bev_returned)]]
  /\ bev_img' = <<>>
  /\ bev_i' = 0
  /\ bev_tr_params' = <<>>
  /\ bev_calls' = <<>>
  /\ bev_raised' = ""
  /\ bev_pc' = "loop"
  /\ UNCHANGED <<bev_transforms, bev_returned>>
  /\ UNCHANGED trainVars

\* Lines 44-50: one iteration of the loop.
compose_step ==
  /\ bev_pc = "loop"
  /\ bev_i < Len(bev_transforms)
  /\ IF ~bev_params.none /\ bev_i >= Len(bev_params.list)
     THEN /\ bev_raised' = "IndexError"
          /\ bev_pc' = "raised"
          /\ UNCHANGED <<bev_img, bev_i, bev_tr_params, bev_calls>>
     ELSE \E r \in ParamValues :
            LET t == bev_transforms[bev_i + 1]
                p == ParamFor(bev_params, bev_i)
                out == Transform(t, bev_img, p, r)
            IN /\ bev_calls' = Append(bev_calls,
                                      [t |-> t, img |-> bev_img, p |-> p, is_bev |-> TRUE,
                                       out |-> out.img, tr |-> out.tr])
               /\ bev_img' = out.img
               /\ bev_tr_params' = Append(bev_tr_params, out.tr)
               /\ bev_i' = bev_i + 1
               /\ UNCHANGED <<bev_pc, bev_raised>>
  /\ UNCHANGED <<bev_transforms, bev_params, bev_returned>>
  /\ UNCHANGED trainVars

\* Line 51.
compose_return ==
  /\ bev_pc = "loop"
  /\ bev_i = Len(bev_transforms)
  /\ bev_returned' = Append(bev_returned, bev_tr_params)
  /\ bev_pc' = "returned"
  /\ UNCHANGED <<bev_transforms, bev_params, bev_img, bev_i, bev_tr_params, bev_calls,
                 bev_raised>>
  /\ UNCHANGED trainVars

\* Lines 39-40: a ComposeBEV over some transforms; train() is not running.
InitBEV ==
  /\ bev_pc = "init"
  /\ bev_transforms \in SeqsUpTo(TransformIds, MaxTransforms)
  /\ bev_params = [none |-> TRUE, list |-> <<>>]
  /\ bev_img = <<>>
  /\ bev_i = 0
  /\ bev_tr_params = <<>>
  /\ bev_calls = <<>>
  /\ bev_returned = <<>>
  /\ bev_raised = ""
  /\ fs_exists = FALSE
  /\ fs = <<>>
  /\ last_created = <<>>
  /\ resumed_only = FALSE
  /\ clock = 1
  /\ invocations = 0
  /\ nsrc = 1
  /\ model_known = TRUE
  /\ augmentation = TRUE
  /\ auto_resume = FALSE
  /\ pc = "none"
  /\ FreshLocals

NextBEV ==
  \/ compose_call
  \/ compose_step
  \/ compose_return

SpecBEV == InitBEV /\ [][NextBEV]_vars

\* ----------------------------------------------------------------- claims
\* Lines 178-192 have run.
LoadersBuilt == collation_source /= "" /\ Len(validation_dataloader.loaders) > 0

\* get_last_checkpoint has been called in this invocation and has ended.
Called == auto_resume /\ pc /= "auto_resume" /\ LoadersBuilt

\* train() ended inside get_last_checkpoint.
RaisedInResolver == Called /\ pc = "raised" /\ run_name = <<>>

\* Lines 198-213 have run.
Named == run_name /= <<>>

\* The 16 characters each timestamp is written as.
Stamps == [t \in ValidTimes |-> RunTime(t)]

\* The timestamp a run folder name starts with.
Stamped(n) == \E t \in ValidTimes : Stamps[t] = Slice(n, 0, 16)

TimeOf(n) == CHOOSE t \in ValidTimes : Stamps[t] = Slice(n, 0, 16)

AllStamped(names) == Len(names) > 0 /\ \A i \in 1..Len(names) : Stamped(names[i])

\* The ranking key as the specification writes it, on the timestamp itself.
FormulaKey(t) ==
  t[1] * 365 * 24 * 60 + t[2] * 30 * 24 * 60 + t[3] * 24 * 60 + t[4] * 60 + t[5]

\* Real calendar order of two timestamps.
CalendarBefore(a, b) ==
  \E k \in 1..5 : a[k] < b[k] /\ \A i \in 1..(k - 1) : a[i] = b[i]

Range(f) == {f[i] : i \in DOMAIN f}

\* C1: on a save_dir that does not exist or has no entries, get_last_checkpoint
\* returns (None, None) without raising, and the auto-resume caller then uses
\* the configured resume_checkpoint and a newly generated run name.
C1_EmptyRootFreshStart ==
  (Called /\ (~fs_exists \/ DOMAIN fs = {})) =>
    /\ ~RaisedInResolver
    /\ ret = NoneResult
    /\ last_path = <<>>
    /\ Named =>
         /\ resume_from_checkpoint = ConfigCheckpoint
         /\ run_name = RunTime(Clock[clock]) \o ModelName \o <<"_">> \o ConfigFields
                         \o (IF augmentation THEN <<"A", "U", "G">>
                             ELSE <<"N", "O", "_", "A", "U", "G">>)
         /\ ckpt_dir = run_name

C1_Witness ==
  /\ Called
  /\ fs_exists
  /\ DOMAIN fs = {}
  /\ pc = "select_module"
  /\ resume_from_checkpoint = ConfigCheckpoint

\* C2: among run folders with valid calendar timestamps, the folder whose
\* timestamp is strictly later in calendar time than every other one is the
\* run get_last_checkpoint selects.
C2_ChronologicallyLatest ==
  (Called /\ pc = "resolved" /\ AllStamped(all_names)) =>
    \A i \in 1..Len(all_names) :
      (\A j \in 1..Len(all_names) :
         j /= i => CalendarBefore(TimeOf(all_names[j]), TimeOf(all_names[i])))
        => ret.run = all_names[i]

\* C3: get_last_checkpoint selects the entry with the maximal key
\* year*365*24*60 + month*30*24*60 + day*24*60 + hour*60 + minute, the first
\* such entry of the listing on a tie; 2023_05_10_10:30 wins over
\* 2023_05_10_09:00 and 2023_01_01_00:01 over 2022_12_31_23:59, as the formula
\* ranks them.
C3_MaximalKeyFirstOccurrence ==
  (Called /\ AllStamped(all_names)) =>
    /\ \E i \in 1..Len(all_names) :
         /\ last_path = all_names[i]
         /\ \A j \in 1..Len(all_names) :
              FormulaKey(TimeOf(all_names[j])) <= FormulaKey(TimeOf(all_names[i]))
         /\ \A j \in 1..(i - 1) :
              FormulaKey(TimeOf(all_names[j])) < FormulaKey(TimeOf(all_names[i]))
    /\ pc = "resolved" => ~ret.none /\ ret.run = last_path
    /\ Range(all_names) = {RunTime(<<2023, 5, 10, 9, 0>>), RunTime(<<2023, 5, 10, 10, 30>>)}
         => last_path = RunTime(<<2023, 5, 10, 10, 30>>)
    /\ Range(all_names) = {RunTime(<<2022, 12, 31, 23, 59>>), RunTime(<<2023, 1, 1, 0, 1>>)}
         => last_path = RunTime(<<2023, 1, 1, 0, 1>>)

C3_Witness ==
  /\ Called
  /\ pc = "resolved"
  /\ AllStamped(all_names)
  /\ Len(all_names) = 2
  /\ all_names[1] /= all_names[2]
  /\ FormulaKey(TimeOf(all_names[1])) = FormulaKey(TimeOf(all_names[2]))
  /\ last_path = all_names[1]

\* The epoch a checkpoint file name is written with.
CkptNames == [c \in CkptFields |-> CkptName(c[1], c[2], c[3])]

EpochOf(f) == (CHOOSE c \in CkptFields : CkptNames[c] = f)[1]

\* The selected run's checkpoints folder holds epoch checkpoints only.
EpochFilesOnly ==
  /\ last_path /= <<>>
  /\ fs[last_path].dir
  /\ fs[last_path].files /= {}
  /\ fs[last_path].files \subseteq CkptFiles

\* C4: for a non-empty checkpoints folder of files epoch=<E>-step=<S>.ckpt,
\* with E of one, two or more digits, get_last_checkpoint returns
\* save_path/<run>/checkpoints/<file> for a file of the greatest epoch E, the
\* first such file of the listing on a tie.
C4_GreatestEpoch ==
  (Called /\ EpochFilesOnly) =>
    /\ pc = "resolved"
    /\ ~ret.none
    /\ ret.run = last_path
    /\ \E i \in 1..Len(all_ckpt) :
         /\ ret.file = all_ckpt[i]
         /\ \A j \in 1..Len(all_ckpt) : EpochOf(all_ckpt[j]) <= EpochOf(all_ckpt[i])
         /\ \A j \in 1..(i - 1) : EpochOf(all_ckpt[j]) < EpochOf(all_ckpt[i])

\* The five fixed position fields of an entry name.
DateFields(n) ==
  {Slice(Slice(n, 0, 16), 0, 4), Slice(Slice(n, 0, 16), 5, 7), Slice(Slice(n, 0, 16), 8, 10),
   Slice(Slice(n, 0, 16), 11, 13), Slice(Slice(n, 0, 16), 14, 16)}

\* Characters 6..8 of a file name, without the '-' that follows a one digit epoch.
EpochField(f) ==
  IF Len(Slice(f, 6, 8)) = 2 /\ Slice(f, 6, 8)[2] = "-" THEN <<Slice(f, 6, 8)[1]>>
  ELSE Slice(f, 6, 8)

\* A field that is missing or holds a character that is no decimal digit.
NonNumeric(f) == Len(f) = 0 \/ \E i \in 1..Len(f) : ~IsDigit(f[i])

\* A field that is missing or that int() does not accept.
Rejected(f) == ~PyInt(f).ok

\* C6 as stated: an entry with a non-numeric or missing date field, whether or
\* not it would be the latest, or a file of the selected run with a non-numeric
\* epoch field, makes the call raise; files of other runs have no effect.
C6_MalformedNameRaises ==
  (Called /\ fs_exists) =>
    /\ (\E n \in DOMAIN fs : \E f \in DateFields(n) : NonNumeric(f))
         => RaisedInResolver
    /\ (last_path /= <<>> /\ fs[last_path].dir
          /\ \E c \in fs[last_path].files : NonNumeric(EpochField(c)))
         => RaisedInResolver
    /\ (last_path /= <<>> /\ fs[last_path].dir /\ fs[last_path].files /= {}
          /\ \A n \in DOMAIN fs : \A f \in DateFields(n) : ~NonNumeric(f)
          /\ \A c \in fs[last_path].files : ~NonNumeric(EpochField(c)))
         => ~RaisedInResolver /\ ~ret.none /\ ret.run = last_path

\* C6 amended: the same for the fields int() rejects.
C6_RejectedNameRaises ==
  (Called /\ fs_exists) =>
    /\ (\E n \in DOMAIN fs : \E f \in DateFields(n) : Rejected(f))
         => RaisedInResolver /\ raised = "ValueError" /\ ret = NoneResult
    /\ (last_path /= <<>> /\ fs[last_path].dir
          /\ \E c \in fs[last_path].files : Rejected(EpochField(c)))
         => RaisedInResolver /\ raised = "ValueError" /\ ret = NoneResult
    /\ (last_path /= <<>> /\ fs[last_path].dir /\ fs[last_path].files /= {}
          /\ \A n \in DOMAIN fs : \A f \in DateFields(n) : ~Rejected(f)
          /\ \A c \in fs[last_path].files : ~Rejected(EpochField(c)))
         => /\ ~RaisedInResolver
            /\ ~ret.none
            /\ ret.run = last_path
            /\ ret.file \in fs[last_path].files

\* A malformed entry that would not be the latest, beside a run that parses.
C6_Witness ==
  /\ RaisedInResolver
  /\ raised = "ValueError"
  /\ \E n \in DOMAIN fs : n = <<"w", "a", "n", "d", "b">>
  /\ \E n \in DOMAIN fs : Stamped(n)


\* C5: after a sequence of auto-resumed runs that each wrote a checkpoint into
\* its successor folder, get_last_checkpoint returns a checkpoint of the most
\* recently created run folder, the same for every order of the listings.
C5_ResumesMostRecentRun ==
  (Called /\ (pc = "resolved" \/ RaisedInResolver) /\ invocations > 1 /\ resumed_only) =>
    /\ pc = "resolved"
    /\ ~ret.none
    /\ ret.run = last_created
    /\ ret.file \in fs[ret.run].files
    /\ \A names \in Listings(DOMAIN fs) :
         /\ SelectRun(fs_exists, names).st = "ok"
         /\ names[SelectRun(fs_exists, names).idx] = ret.run

\* The successor branch of lines 198-204 was taken.
Resumed == Called /\ Named /\ ~ret.none

LastChar(n) == n[Len(n)]

\* The decimal representation of d+1 for each digit d.
Incremented ==
  << <<"1">>, <<"2">>, <<"3">>, <<"4">>, <<"5">>, <<"6">>, <<"7">>, <<"8">>, <<"9">>,
     <<"1", "0">> >>

\* What C7 says apart from the timestamp prefix: the successor name, the
\* resume checkpoint and the folder of the new checkpoints.
SuccessorPolicy ==
  /\ IsDigit(LastChar(ret.run))
       => run_name = DropLast(ret.run) \o Incremented[DigitVal(LastChar(ret.run)) + 1]
  /\ ~IsDigit(LastChar(ret.run)) => run_name = ret.run \o <<"-", "P", "T", "2">>
  /\ run_name /= ret.run
  /\ resume_from_checkpoint = [src |-> "resolver", run |-> ret.run, file |-> ret.file]
  /\ ret.file \in fs[ret.run].files
  /\ ckpt_dir = run_name
  /\ fit_ckpt_path /= Unset => fit_ckpt_path = resume_from_checkpoint
  /\ wrote => CkptFile(epoch - 1) \in fs[run_name].files

C8_TrainerForOneOrTwoDomains ==
  /\ pl_module = "PLTTrainer2D" => nsrc = 1
  /\ pl_module = "PLTTrainer2DMulti" => nsrc = 2
  /\ pc \in {"trainer", "fit", "training", "done", "killed"}
       => /\ nsrc \in {1, 2}
          /\ pl_module = IF nsrc = 1 THEN "PLTTrainer2D" ELSE "PLTTrainer2DMulti"
  /\ nsrc \notin {1, 2}
       => /\ pl_module = ""
          /\ ~trainer
          /\ fit_ckpt_path = Unset
          /\ ~wrote
          /\ (Named /\ pc /= "select_module") => (pc = "raised" /\ raised = "ValueError")

C8_Witness ==
  /\ nsrc = 3
  /\ Named
  /\ pc = "raised"
  /\ raised = "ValueError"
  /\ ~trainer

\* What C9 says of the loaders.
LoaderPolicy ==
  /\ \A k \in 1..Len(validation_dataloader.loaders) :
       /\ validation_dataloader.loaders[k].collate_fn = "CollateFN"
       /\ Cardinality(validation_dataloader.loaders[k].domains) = 1
  /\ nsrc > 1
       => /\ validation_dataloader.list
          /\ Len(validation_dataloader.loaders) = nsrc
          /\ \A k \in 1..nsrc : validation_dataloader.loaders[k].domains = {k}
  /\ collation_source = "CollateFNMultiSourceBEVMultiLevel" <=> nsrc > 1
  /\ nsrc <= 1 => collation_source = "CollateFNSingleSourceBEVMultiLevel"

\* C9 as stated: for every number of source domains every validation loader
\* collates single-source over exactly one domain's validation dataset, there
\* is one per domain when there are several, and the training loader collates
\* multi-source if and only if there is more than one source domain.
C9_EveryDomainCount == LoadersBuilt => LoaderPolicy

\* C9 amended: the same for every positive number of source domains.
C9_PositiveDomainCount == (LoadersBuilt /\ nsrc >= 1) => LoaderPolicy

C9_Witness ==
  /\ LoadersBuilt
  /\ nsrc = 3
  /\ Len(validation_dataloader.loaders) = 3
  /\ collation_source = "CollateFNMultiSourceBEVMultiLevel"

\* C10: __call__ applies the transforms in list order, each on the image the
\* previous one returned and with is_bev=True; transform i gets params[i] when
\* params is given and None otherwise; the returned list has one entry per
\* transform in that order, so a call on a returned list hands every transform
\* the parameters it reported.
C10_ComposeInOrder ==
  /\ bev_raised = "" => Len(bev_calls) = bev_i
  /\ \A k \in 1..Len(bev_calls) :
       /\ bev_calls[k].t = bev_transforms[k]
       /\ bev_calls[k].is_bev
       /\ bev_calls[k].img = IF k = 1 THEN <<>> ELSE bev_calls[k - 1].out
       /\ bev_calls[k].p = IF bev_params.none THEN "None" ELSE bev_params.list[k]
  /\ bev_pc = "returned"
       => /\ bev_img = IF bev_calls = <<>> THEN <<>> ELSE bev_calls[Len(bev_calls)].out
          /\ Len(bev_tr_params) = Len(bev_transforms)
          /\ \A k \in 1..Len(bev_transforms) : bev_tr_params[k] = bev_calls[k].tr
          /\ bev_returned[Len(bev_returned)] = bev_tr_params
  /\ (Len(bev_returned) >= 1 /\ bev_pc \in {"loop", "returned"} /\ ~bev_params.none
        /\ bev_params.list = bev_returned[1])
       => \A k \in 1..Len(bev_calls) : bev_calls[k].p = bev_returned[1][k]

C10_Witness ==
  /\ bev_pc = "returned"
  /\ Len(bev_returned) = 2
  /\ Len(bev_transforms) = 2
  /\ bev_returned[1] = <<"p", "q">>
  /\ bev_calls[1].p = "p"
  /\ bev_calls[2].p = "q"

====
